---- MODULE Spec2Model ----
(***************************************************************************)
(* Cache store and request path of PharmExtract.                           *)
(*                                                                         *)
(* cache_manager.py : CacheManager (in-memory map mirrored to one JSON     *)
(*                    file, batch population guarded by a marker file)     *)
(* main.py          : the /predict request handler                         *)
(*                                                                         *)
(* Strings of the program are sequences of one-character strings, so that  *)
(* str.startswith and string concatenation are computed, not assumed.      *)
(***************************************************************************)
EXTENDS Integers, Sequences, FiniteSets, TLC

VARIABLES
    cache_data,   \* [Procs -> map]: CacheManager._cache_data of each worker process
    file,         \* the file cache_dir/sample_cache.json shared by the workers
    lock,         \* TRUE iff the marker file cache_dir/.cache_lock exists
    pc,           \* [Procs -> position of the worker inside prepopulate_cache_with_samples]
    sample_reports, \* the sample list the deployment hands to batch population
    batch,        \* [Procs -> arguments and loop index of the call a worker is executing]
    computed,     \* [Procs -> item indices for which the running/last call invoked the compute function]
    keycall,      \* the arguments of a watched _get_cache_key call and the keys it returned
    nops,         \* number of handler invocations so far
    ev,           \* the handler step that was executed last and how it ended
    run,          \* one run of the structuring pipeline: its input and what each stage returned
    rebuild       \* the run of tools/rebuild_cache.py: its position in the sample list and its counts

vars == <<cache_data, file, lock, pc, sample_reports, batch, computed, keycall, nops, ev, run, rebuild>>

----------------------------------------------------------------------------
(* Bounds of the model *)

MaxOps   == 3      \* handler invocations in one behaviour
MaxCalls == 2      \* batch population calls in one behaviour
MaxItems == 2      \* longest sample list handed to batch population
MaxKeyCalls == 2   \* watched calls of the key function in one behaviour

\* the worker processes; the web application of main.py is one of them
Procs == {"w1", "w2"}
Server == "w1"

----------------------------------------------------------------------------
(* Strings *)

SamplePrefix == <<"s", "a", "m", "p", "l", "e", "_">>
CustomPrefix == <<"c", "u", "s", "t", "o", "m", "_">>

\* Python's None for an optional string; no string of the program contains
\* this element.
None == <<"<None>">>

startswith(s, prefix) ==
    /\ Len(s) >= Len(prefix)
    /\ SubSeq(s, 1, Len(prefix)) = prefix

\* truth value of an optional string: None and "" are falsy
StrTruthy(s) == s # None /\ s # <<>>

\* report texts after preprocessing, and sample ids without the prefix
Texts == {<<"x">>, <<"y">>}
BareIds == {<<"a">>}
\* sample ids a caller can supply: absent, empty, bare, already prefixed
Ids == {None, <<>>} \cup BareIds \cup { SamplePrefix \o b : b \in BareIds }

\* hashlib.md5(text.encode('utf-8')).hexdigest(): a function of the text
\* alone, without collisions on the texts of the model.
md5_hexdigest(text) == <<"#">> \o text

----------------------------------------------------------------------------
(* Payloads: the dictionaries stored in the cache.  A field that the        *)
(* dictionary does not have is Absent; sanitized_input is the empty set     *)
(* when missing and {text} when present.                                    *)

Absent == "<absent>"

Payload(text, segments, sanitized) ==
    [isNone |-> FALSE, text |-> text, segments |-> segments, sanitized_input |-> sanitized]

\* what structurer.predict returns for a successful structuring
StructuredPayload == Payload("report", "some", {})
\* what structurer.predict returns when the engine call fails
ErrorPayload == Payload("Error processing report", "none", {})
\* the empty dictionary {}
EmptyPayload == Payload(Absent, Absent, {})

\* bool(result) of a dictionary or None
Truthy(r) ==
    /\ ~r.isNone
    /\ (r.text # Absent \/ r.segments # Absent \/ r.sanitized_input # {})

\* results a caller of cache_result or a compute function can hand over: a
\* structured response, a result without a 'text' field, the empty dictionary
Results == {StructuredPayload, Payload(Absent, "some", {}), EmptyPayload}

----------------------------------------------------------------------------
(* Maps *)

EmptyMap == <<>>

MapPut(m, k, v) == (k :> v) @@ m

MapDel(m, k) == [x \in DOMAIN m \ {k} |-> m[x]]

\* dict.get: the payload, or None (isNone) for a missing key
MapGet(m, k) ==
    IF k \in DOMAIN m THEN m[k]
    ELSE [isNone |-> TRUE, text |-> Absent, segments |-> Absent, sanitized_input |-> {}]

----------------------------------------------------------------------------
(* The cache file.  st is "absent" (no file), "ok" (a JSON object, held in  *)
(* data) or "corrupt" (not parseable: a write was cut short).               *)

FileOk(m) == [st |-> "ok", data |-> m]
FileCorrupt == [st |-> "corrupt", data |-> EmptyMap]

\* outcomes of one _save_cache: the write succeeds; makedirs/open raises
\* before the file is touched; open truncated the file and the dump raised
SaveOutcomes == {"ok", "unwritable", "torn"}

_save_cache(m, f, outcome) ==
    CASE outcome = "ok" -> FileOk(m)
      [] outcome = "unwritable" -> f
      [] OTHER -> FileCorrupt

\* a load that trusts whatever the file held last
load_cache_unguarded(f, readable) == f.data

\* _load_cache: the map a CacheManager starts with; readable = FALSE is an
\* open/read that raises
_load_cache(f, readable) ==
    IF f.st = "ok" /\ readable THEN f.data ELSE EmptyMap

----------------------------------------------------------------------------
(* Cache keys *)

\* the key function without the test for an existing prefix
get_cache_key_always_prefix(text, sample_id) ==
    IF StrTruthy(sample_id)
    THEN SamplePrefix \o sample_id
    ELSE CustomPrefix \o md5_hexdigest(text)

\* a key function that hashes the text into the key of a sample as well
get_cache_key_with_text(text, sample_id) ==
    IF StrTruthy(sample_id)
    THEN (IF startswith(sample_id, SamplePrefix) THEN sample_id ELSE SamplePrefix \o sample_id)
            \o md5_hexdigest(text)
    ELSE CustomPrefix \o md5_hexdigest(text)

_get_cache_key(text, sample_id) ==
    IF StrTruthy(sample_id)
    THEN IF startswith(sample_id, SamplePrefix)
         THEN sample_id
         ELSE SamplePrefix \o sample_id
    ELSE CustomPrefix \o md5_hexdigest(text)

\* the key remove_sample builds
remove_key(sample_id) == SamplePrefix \o sample_id

get_cached_result(m, text, sample_id) == MapGet(m, _get_cache_key(text, sample_id))

----------------------------------------------------------------------------
(* Events *)

\* op: the handler; p: the worker; flag: its boolean outcome (write
\* succeeded, value returned); status: how it ended
Event(op, p, flag, status) == [op |-> op, p |-> p, flag |-> flag, status |-> status]

----------------------------------------------------------------------------
(* Text preprocessing (sanitize.py), on the characters of the model:       *)
(* letters, the blank and the bullet "*".                                  *)

RECURSIVE lstrip(_)
lstrip(s) == IF s # <<>> /\ Head(s) = " " THEN lstrip(Tail(s)) ELSE s

RECURSIVE rstrip(_)
rstrip(s) ==
    IF s # <<>> /\ s[Len(s)] = " " THEN rstrip(SubSeq(s, 1, Len(s) - 1)) ELSE s

\* str.strip()
strip(s) == rstrip(lstrip(s))

\* _WS.sub(" ", out): every run of blanks becomes one blank
RECURSIVE collapse_ws(_)
collapse_ws(s) ==
    IF Len(s) < 2 THEN s
    ELSE IF s[1] = " " /\ s[2] = " " THEN collapse_ws(Tail(s))
    ELSE <<s[1]>> \o collapse_ws(Tail(s))

sanitize_text(text) == strip(collapse_ws(text))

RECURSIVE drop_bullets(_)
drop_bullets(s) == IF s # <<>> /\ Head(s) = "*" THEN drop_bullets(Tail(s)) ELSE s

\* _BULLET_HDR.sub("", text) on a one-line text: blanks, one or more bullet
\* characters and the blanks after them are removed from the start
normalize_structure(text) ==
    LET t == lstrip(text) IN
    strip(IF t # <<>> /\ Head(t) = "*" THEN lstrip(drop_bullets(t)) ELSE text)

preprocess_report(raw) == normalize_structure(sanitize_text(raw))

----------------------------------------------------------------------------
(* Batch population: sample lists and the state of a call *)

\* one element of sample_reports: a dictionary with optional 'id' and
\* 'text', or (dict = FALSE) a value that is not a dictionary
Item(id, text) == [dict |-> TRUE, id |-> id, text |-> text]

ItemSet ==
    { Item(b, <<"x">>) : b \in BareIds }
        \cup {Item(None, <<"x">>), [dict |-> FALSE, id |-> None, text |-> <<>>]}

RECURSIVE SeqsUpTo(_, _)
SeqsUpTo(S, n) ==
    IF n = 0 THEN {<<>>}
    ELSE LET shorter == SeqsUpTo(S, n - 1) IN
         shorter \cup { Append(s, x) : s \in {t \in shorter : Len(t) = n - 1}, x \in S }

\* i, force: the loop index and the force_refresh argument; passed: the call
\* got past the lock check; wrote: it created the marker; done: the items
\* whose computation returned a non-empty result in this call; prev_done:
\* the same for the worker's previous call; raised: the items whose
\* computation raised in this call; callno: the number of calls the worker
\* has started
NoBatch ==
    [i |-> 0, force |-> FALSE, passed |-> FALSE, wrote |-> FALSE,
     done |-> {}, prev_done |-> {}, raised |-> {}, callno |-> 0]

\* text, id: the arguments of the watched calls; keys: what the calls
\* returned, in order; sizes: the number of entries the map held at each call
KeyCall(text, id) == [text |-> text, id |-> id, keys |-> <<>>, sizes |-> <<>>]

NoKeyCall == KeyCall(<<>>, None)

\* stage: "idle" (no run), "input" (the engine has returned its extractions),
\* "built", "organized", "rendered", or "failed" (an exception reached
\* predict); extractions: what the engine returned; segments: what the
\* segment builder returned; organized: what the organizer returned; text:
\* what the renderer returned
Run(stage, extractions, segments) ==
    [stage |-> stage, extractions |-> extractions, segments |-> segments,
     organized |-> <<>>, text |-> ""]

NoRun == Run("idle", <<>>, <<>>)

\* stage: "idle" (not started), "loop" or "done"; i: the index of the sample
\* the for loop is at; retries: the local counter of the while loop;
\* attempts: for each sample, how often structurer.predict was called for it;
\* skipped: the samples reported as failed; stored: the samples for which
\* cache_result was called
NoRebuild ==
    [stage |-> "idle", i |-> 0, retries |-> 0, attempts |-> <<>>,
     skipped |-> {}, stored |-> {}]

----------------------------------------------------------------------------
InitStore ==
    /\ cache_data = [p \in Procs |-> EmptyMap]
    /\ file = [st |-> "absent", data |-> EmptyMap]
    /\ lock = FALSE
    /\ pc = [p \in Procs |-> "idle"]
    /\ batch = [p \in Procs |-> NoBatch]
    /\ computed = [p \in Procs |-> {}]
    /\ nops = 0
    /\ ev = Event("init", "", FALSE, "")
    /\ rebuild = NoRebuild

\* the web application: no batch population is configured
Init == InitStore /\ sample_reports = <<>> /\ keycall = NoKeyCall /\ run = NoRun

\* a deployment that runs batch population over some sample list
InitBatch ==
    InitStore /\ sample_reports \in SeqsUpTo(ItemSet, MaxItems) /\ keycall = NoKeyCall /\ run = NoRun

\* the key function is watched for one pair of arguments
InitKey ==
    /\ InitStore
    /\ sample_reports = <<>>
    /\ keycall \in { KeyCall(text, id) : text \in Texts, id \in Ids }
    /\ run = NoRun

----------------------------------------------------------------------------
(* CacheManager: the operations on the store.  A worker executes one       *)
(* handler at a time; every handler but batch population is one step.      *)

Ready(p) == pc[p] = "idle" /\ nops < MaxOps

\* CacheManager.__init__: a worker (re)starts and loads the file
Construct(p) ==
    /\ Ready(p)
    /\ \E readable \in BOOLEAN :
        /\ cache_data' = [cache_data EXCEPT ![p] = _load_cache(file, readable)]
        /\ ev' = Event("construct", p, readable, "")
    /\ nops' = nops + 1
    /\ UNCHANGED <<file, lock, pc, sample_reports, batch, computed, keycall, run, rebuild>>

\* ev.flag: the lookup returned a payload that counts as a hit
GetCachedResult(p) ==
    /\ Ready(p)
    /\ \E text \in Texts, id \in Ids :
        ev' = Event("get_cached_result", p,
                    Truthy(get_cached_result(cache_data[p], text, id)), "")
    /\ nops' = nops + 1
    /\ UNCHANGED <<cache_data, file, lock, pc, sample_reports, batch, computed, keycall, run, rebuild>>

\* one call of _get_cache_key with the watched arguments
GetCacheKey(p) ==
    /\ pc[p] = "idle"
    /\ Len(keycall.keys) < MaxKeyCalls
    /\ keycall' = [keycall EXCEPT
                     !.keys = Append(@, _get_cache_key(keycall.text, keycall.id)),
                     !.sizes = Append(@, Cardinality(DOMAIN cache_data[p]))]
    /\ UNCHANGED <<cache_data, file, lock, pc, sample_reports, batch, computed, nops, ev, run, rebuild>>

\* cache_result that keeps the entry only when the file could be written
cache_result_if_saved(m, f, text, result, sample_id, outcome) ==
    LET m2 == MapPut(m, _get_cache_key(text, sample_id), result) IN
    [map |-> IF outcome = "ok" THEN m2 ELSE m, file |-> _save_cache(m2, f, outcome)]

\* the body of cache_result: the map and the file it leaves
cache_result(m, f, text, result, sample_id, outcome) ==
    LET m2 == MapPut(m, _get_cache_key(text, sample_id), result) IN
    [map |-> m2, file |-> _save_cache(m2, f, outcome)]

CacheResultOp(p, text, result, sample_id, outcome) ==
    LET after == cache_result(cache_data[p], file, text, result, sample_id, outcome) IN
    /\ Ready(p)
    /\ cache_data' = [cache_data EXCEPT ![p] = after.map]
    /\ file' = after.file
    /\ ev' = Event("cache_result", p, outcome = "ok", "")
    /\ nops' = nops + 1
    /\ UNCHANGED <<lock, pc, sample_reports, batch, computed, keycall, run, rebuild>>

CacheResult(p) ==
    \E text \in Texts, id \in Ids, result \in Results, outcome \in SaveOutcomes :
        CacheResultOp(p, text, result, id, outcome)

ClearCache(p) ==
    /\ Ready(p)
    /\ \E outcome \in SaveOutcomes :
        /\ cache_data' = [cache_data EXCEPT ![p] = EmptyMap]
        /\ file' = _save_cache(EmptyMap, file, outcome)
        /\ ev' = Event("clear_cache", p, outcome = "ok", "")
    /\ nops' = nops + 1
    /\ UNCHANGED <<lock, pc, sample_reports, batch, computed, keycall, run, rebuild>>

\* ev.status is the value remove_sample returns
RemoveSampleOp(p, sample_id, outcome) ==
    LET key == remove_key(sample_id) IN
    /\ Ready(p)
    /\ IF key \in DOMAIN cache_data[p]
       THEN LET m == MapDel(cache_data[p], key) IN
            /\ cache_data' = [cache_data EXCEPT ![p] = m]
            /\ file' = _save_cache(m, file, outcome)
            /\ ev' = Event("remove_sample", p, outcome = "ok", "True")
       ELSE /\ outcome = "ok"
            /\ ev' = Event("remove_sample", p, FALSE, "False")
            /\ UNCHANGED <<cache_data, file>>
    /\ nops' = nops + 1
    /\ UNCHANGED <<lock, pc, sample_reports, batch, computed, keycall, run, rebuild>>

RemoveSample(p) ==
    \E id \in Ids \ {None}, outcome \in SaveOutcomes : RemoveSampleOp(p, id, outcome)

----------------------------------------------------------------------------
(* main.py: the /predict request handler *)

MAX_INPUT_LENGTH == 3000

\* request bodies: empty, blank, a bullet without text, the texts as they
\* are and with blanks or a bullet around them, and one that is too long
RawInputs ==
    {<<>>, <<" ">>, <<"*", " ">>, [i \in 1..(MAX_INPUT_LENGTH + 1) |-> "x"]}
        \cup Texts
        \cup { <<" ">> \o t \o <<" ">> : t \in Texts }
        \cup { <<"*", " ">> \o t : t \in Texts }

\* the branch of predict that answers from the cache: the map it leaves
predict_hit(m, key) ==
    IF m[key].text = Absent
    THEN MapPut(m, key, [m[key] EXCEPT !.text = ""])
    ELSE m

\* result["sanitized_input"] = processed_data, on the dictionary that
\* cache_result has just stored in the map
set_sanitized_input(m, key, processed) ==
    MapPut(m, key, [m[key] EXCEPT !.sanitized_input = {processed}])

\* the handler of one request with the body data and the headers
\* X-Sample-ID (None: no header) and X-Use-Cache
PredictOp(p, data, sample_id, use_cache) ==
    /\ Ready(p)
    /\ IF data = <<>> \/ strip(data) = <<>>
       THEN /\ ev' = Event("predict", p, FALSE, "400 Empty input")
            /\ UNCHANGED <<cache_data, file>>
       ELSE IF Len(data) > MAX_INPUT_LENGTH
       THEN /\ ev' = Event("predict", p, FALSE, "400 Input too long")
            /\ UNCHANGED <<cache_data, file>>
       ELSE
       LET processed_data == preprocess_report(data)
           key == _get_cache_key(processed_data, sample_id)
           cached_result == get_cached_result(cache_data[p], processed_data, sample_id)
       IN
       IF use_cache /\ Truthy(cached_result)
       THEN /\ cache_data' = [cache_data EXCEPT ![p] = predict_hit(cache_data[p], key)]
            /\ ev' = Event("predict", p, TRUE, "200 from_cache")
            /\ UNCHANGED file
       ELSE IF strip(processed_data) = <<>>
       THEN \* structurer.predict raises ValueError("Report text cannot be empty"),
            \* which the handler answers with 500 and the message as error
            /\ ev' = Event("predict", p, FALSE, "500 Report text cannot be empty")
            /\ UNCHANGED <<cache_data, file>>
       ELSE
       \* model.predict returns the structured response; the engine call fails
       \* with an error the structurer catches and turns into the error
       \* payload; it fails with any other exception, which propagates
       \E engine \in {"structured", "caught", "raised"} :
       LET result == IF engine = "structured" THEN StructuredPayload ELSE ErrorPayload IN
       IF engine = "raised"
       THEN /\ ev' = Event("predict", p, FALSE, "500")
            /\ UNCHANGED <<cache_data, file>>
       ELSE IF use_cache
       THEN \E outcome \in SaveOutcomes :
            LET after == cache_result(cache_data[p], file, processed_data, result,
                                      sample_id, outcome)
            IN
            /\ cache_data' = [cache_data EXCEPT
                                ![p] = set_sanitized_input(after.map, key, processed_data)]
            /\ file' = after.file
            /\ ev' = Event("predict", p, outcome = "ok", "200 cached")
       ELSE /\ ev' = Event("predict", p, FALSE, "200")
            /\ UNCHANGED <<cache_data, file>>
    /\ nops' = nops + 1
    /\ UNCHANGED <<lock, pc, sample_reports, batch, computed, keycall, run, rebuild>>

Predict(p) ==
    \E data \in RawInputs, sample_id \in Ids, use_cache \in BOOLEAN :
        PredictOp(p, data, sample_id, use_cache)

----------------------------------------------------------------------------
(* CacheManager.prepopulate_cache_with_samples, one step per system call   *)
(* or loop iteration.  pc: "idle" (not in a call), "lock" (past the lock   *)
(* check, marker not yet written), "loop", "finally" (before the test of   *)
(* os.path.exists), "remove" (before os.remove).                           *)

\* the lock check with the negation of force_refresh forgotten
lock_blocks_if_forced(marker, force_refresh) == marker /\ force_refresh

\* the lock check: os.path.exists(lock_file) and not force_refresh
lock_blocks(marker, force_refresh) == marker /\ ~force_refresh

\* the test for an entry that ignores the cache
never_cached(m, force_refresh, sample) == FALSE

\* the test for an entry that ignores force_refresh
cached_whatever_force(m, force_refresh, sample) ==
    Truthy(get_cached_result(m, sample.text, sample.id))

\* not force_refresh and self.get_cached_result(sample_text, sample_id)
already_cached(m, force_refresh, sample) ==
    ~force_refresh /\ Truthy(get_cached_result(m, sample.text, sample.id))

\* a lock check that takes the marker when it is free (an atomic
\* create-if-absent)
lock_after_atomic_check(marker) == TRUE

\* the marker after a call has passed the lock check: os.path.exists only
\* looks; the marker is written later, inside the try block
lock_after_check(marker) == marker

\* the call starts: empty list, lock check
PrepopulateOp(p, force_refresh) ==
    LET call == [NoBatch EXCEPT !.i = 1, !.force = force_refresh,
                                !.prev_done = batch[p].done,
                                !.callno = batch[p].callno + 1]
    IN
    /\ pc[p] = "idle" /\ nops < MaxCalls
    /\ IF sample_reports = <<>> \/ lock_blocks(lock, force_refresh)
       THEN /\ batch' = [batch EXCEPT ![p] = call]
            /\ UNCHANGED <<pc, lock>>
       ELSE /\ batch' = [batch EXCEPT ![p] = [call EXCEPT !.passed = TRUE]]
            /\ pc' = [pc EXCEPT ![p] = "lock"]
            /\ lock' = lock_after_check(lock)
    /\ computed' = [computed EXCEPT ![p] = {}]
    /\ nops' = nops + 1
    /\ UNCHANGED <<cache_data, file, sample_reports, keycall, ev, run, rebuild>>

\* _ensure_cache_dir and the write of the marker: it succeeds; it raises
\* before the marker exists; it raises after open() has created the marker
WriteLock(p) ==
    /\ pc[p] = "lock"
    /\ \E outcome \in SaveOutcomes :
        CASE outcome = "ok" ->
                /\ lock' = TRUE
                /\ batch' = [batch EXCEPT ![p].wrote = TRUE]
                /\ pc' = [pc EXCEPT ![p] = "loop"]
          [] outcome = "unwritable" ->
                /\ pc' = [pc EXCEPT ![p] = "finally"]
                /\ UNCHANGED <<lock, batch>>
          [] OTHER ->
                /\ lock' = TRUE
                /\ pc' = [pc EXCEPT ![p] = "finally"]
                /\ UNCHANGED batch
    /\ UNCHANGED <<cache_data, file, sample_reports, computed, keycall, nops, ev, run, rebuild>>

\* an inner handler that lets the exception of the compute function end the
\* loop
except_abort(p) == [pc EXCEPT ![p] = "finally"]

\* except Exception ... continue around the compute function: where the
\* worker is after the handler
except_continue(p) == [pc EXCEPT ![p] = "loop"]

\* one iteration of the loop over sample_reports; compute is what the
\* compute function does if it is called, outcome what the write of
\* cache_result does if it is reached
LoopItemOp(p, compute, outcome) ==
    /\ pc[p] = "loop"
    /\ batch[p].i <= Len(sample_reports)
    /\ LET sample == sample_reports[batch[p].i]
           next == [batch EXCEPT ![p].i = @ + 1]
       IN
        LET result == IF compute = "structured" THEN StructuredPayload ELSE EmptyPayload
            after == cache_result(cache_data[p], file, sample.text, result,
                                  sample.id, outcome)
            unused == compute = "raise" /\ outcome = "ok"
        IN
        IF ~sample.dict
        THEN \* sample.get raises AttributeError: the loop is left
             /\ unused
             /\ pc' = [pc EXCEPT ![p] = "finally"]
             /\ UNCHANGED <<cache_data, file, batch, computed>>
        ELSE IF ~StrTruthy(sample.id) \/ sample.text = <<>>
        THEN /\ unused
             /\ batch' = next
             /\ UNCHANGED <<cache_data, file, pc, computed>>
        ELSE IF already_cached(cache_data[p], batch[p].force, sample)
        THEN /\ unused
             /\ batch' = next
             /\ UNCHANGED <<cache_data, file, pc, computed>>
        ELSE IF compute = "raise"
        THEN /\ outcome = "ok"
             /\ batch' = [next EXCEPT ![p].raised = @ \cup {batch[p].i}]
             /\ computed' = [computed EXCEPT ![p] = @ \cup {batch[p].i}]
             /\ pc' = except_continue(p)
             /\ UNCHANGED <<cache_data, file>>
        ELSE /\ cache_data' = [cache_data EXCEPT ![p] = after.map]
             /\ file' = after.file
             /\ batch' = [next EXCEPT ![p].done =
                                IF compute = "structured" THEN @ \cup {batch[p].i} ELSE @]
             /\ computed' = [computed EXCEPT ![p] = @ \cup {batch[p].i}]
             /\ UNCHANGED pc
    /\ UNCHANGED <<lock, sample_reports, keycall, nops, ev, run, rebuild>>

\* structurer_callable returns a structured result or an empty one, or raises
LoopItem(p) ==
    \E compute \in {"structured", "empty", "raise"}, outcome \in SaveOutcomes :
        LoopItemOp(p, compute, outcome)

\* the loop is exhausted: the closing _save_cache
LoopEnd(p) ==
    /\ pc[p] = "loop"
    /\ batch[p].i > Len(sample_reports)
    /\ \E outcome \in SaveOutcomes :
        file' = _save_cache(cache_data[p], file, outcome)
    /\ pc' = [pc EXCEPT ![p] = "finally"]
    /\ UNCHANGED <<cache_data, lock, sample_reports, batch, computed, keycall, nops, ev, run, rebuild>>

\* finally: os.path.exists(lock_file)
FinallyCheck(p) ==
    /\ pc[p] = "finally"
    /\ pc' = [pc EXCEPT ![p] = IF lock THEN "remove" ELSE "idle"]
    /\ UNCHANGED <<cache_data, file, lock, sample_reports, batch, computed, keycall, nops, ev, run, rebuild>>

\* a finally block that leaves the marker in place
FinallyKeepsMarker(p) ==
    /\ pc[p] = "remove"
    /\ pc' = [pc EXCEPT ![p] = "idle"]
    /\ UNCHANGED <<cache_data, file, lock, sample_reports, batch, computed, keycall, nops, ev, run, rebuild>>

\* finally: os.remove(lock_file); it raises FileNotFoundError when another
\* call has removed the marker since the test
FinallyRemove(p) ==
    /\ pc[p] = "remove"
    /\ lock' = FALSE
    /\ pc' = [pc EXCEPT ![p] = "idle"]
    /\ UNCHANGED <<cache_data, file, sample_reports, batch, computed, keycall, nops, ev, run, rebuild>>

----------------------------------------------------------------------------
(* structure_report.py: strings.  The texts of the structuring pipeline    *)
(* are TLA+ strings, on which Len, Head, Tail, SubSeq and \o are those of   *)
(* sequences of characters; Head gives a one-character string.             *)

\* Python's None where the program expects a string, and a value that is
\* neither None nor a string (an int); no string of the program equals them
NoneStr == "<None>"
NotAStr == "<int>"

IsStr(x) == x \notin {NoneStr, NotAStr}

\* the characters str.strip() removes
Whitespace == {" ", "\n", "\t"}

\* the table that maps every letter of alphabet `from` to the letter at the
\* same place of alphabet `to`
letter_table(from, to) ==
    [c \in {SubSeq(from, i, i) : i \in 1..Len(from)} |->
        LET i == CHOOSE i \in 1..Len(from) : SubSeq(from, i, i) = c
        IN SubSeq(to, i, i)]

ToLower == letter_table("ABCDEFGHIJKLMNOPQRSTUVWXYZ", "abcdefghijklmnopqrstuvwxyz")
ToUpper == letter_table("abcdefghijklmnopqrstuvwxyz", "ABCDEFGHIJKLMNOPQRSTUVWXYZ")

\* s with every character that the table knows replaced
RECURSIVE map_chars(_, _)
map_chars(s, table) ==
    IF s = "" THEN ""
    ELSE (IF Head(s) \in DOMAIN table THEN table[Head(s)] ELSE Head(s))
            \o map_chars(Tail(s), table)

\* str.lower() and str.upper()
str_lower(s) == map_chars(s, ToLower)
str_upper(s) == map_chars(s, ToUpper)

RECURSIVE str_lstrip(_)
str_lstrip(s) == IF s # "" /\ Head(s) \in Whitespace THEN str_lstrip(Tail(s)) ELSE s

RECURSIVE str_rstrip(_)
str_rstrip(s) ==
    IF s # "" /\ SubSeq(s, Len(s), Len(s)) \in Whitespace
    THEN str_rstrip(SubSeq(s, 1, Len(s) - 1))
    ELSE s

str_strip(s) == str_rstrip(str_lstrip(s))

\* sep.join(parts)
RECURSIVE str_join(_, _)
str_join(sep, parts) ==
    IF parts = <<>> THEN ""
    ELSE IF Len(parts) = 1 THEN parts[1]
    ELSE parts[1] \o sep \o str_join(sep, Tail(parts))

\* text.split("\n") of the text line \o s: split_lines(s, "") is the lines
\* of s
RECURSIVE split_lines(_, _)
split_lines(s, line) ==
    IF s = "" THEN <<line>>
    ELSE IF Head(s) = "\n" THEN <<line>> \o split_lines(Tail(s), "")
    ELSE split_lines(Tail(s), line \o Head(s))

----------------------------------------------------------------------------
(* structure_report.py: the data of the pipeline *)

FINDINGS_HEADER == "FINDINGS:"
IMPRESSION_HEADER == "IMPRESSION:"
EXAMINATION_HEADER == "EXAMINATION:"

EXAM_PREFIXES == <<"EXAMINATION:", "EXAM:", "STUDY:">>

EXAMINATION_LABEL == "examination"
PREFIX_LABEL == "prefix"

\* the members of the enum ReportSectionType, in definition order
ReportSectionType == <<"PREFIX", "BODY", "SUFFIX">>

\* ReportSectionType.value
section_value(section_type) ==
    CASE section_type = "PREFIX" -> "findings_prefix"
      [] section_type = "BODY" -> "findings_body"
      [] section_type = "SUFFIX" -> "findings_suffix"

\* ReportSectionType.display_name
display_name(section_type) == str_lower(section_type)

\* a position of a char_interval: an int (v), None, a string that int()
\* rejects, or a slice object with start v and stop w
IntPos(v) == [t |-> "int", v |-> v, w |-> v]
NonePos == [t |-> "none", v |-> 0, w |-> 0]
TextPos == [t |-> "text", v |-> 0, w |-> 0]
SlicePos(v, w) == [t |-> "slice", v |-> v, w |-> w]

\* extraction.char_interval: None or a CharInterval object
NoInterval == [kind |-> "none", start_pos |-> NonePos, end_pos |-> NonePos]
CharInterval(start_pos, end_pos) ==
    [kind |-> "obj", start_pos |-> start_pos, end_pos |-> end_pos]

\* extraction.attributes: None, a dictionary (of which the pipeline reads
\* the keys "section" and "clinical_significance"; NoneStr: key missing), or
\* a value that is not a dictionary
NoAttributes == [kind |-> "none", section |-> NoneStr, clinical_significance |-> NoneStr]
Attributes(section, significance) ==
    [kind |-> "dict", section |-> section, clinical_significance |-> significance]
NotAMapping == [kind |-> "other", section |-> NoneStr, clinical_significance |-> NoneStr]

Extraction(extraction_class, extraction_text, attributes, char_interval) ==
    [extraction_class |-> extraction_class, extraction_text |-> extraction_text,
     attributes |-> attributes, char_interval |-> char_interval]

\* the dataclass Segment; type is a member of ReportSectionType
Segment(type, label, content, intervals, significance) ==
    [type |-> type, label |-> label, content |-> content,
     intervals |-> intervals, significance |-> significance]

FrontendIntervalDict(startPos, endPos) == [startPos |-> startPos, endPos |-> endPos]

----------------------------------------------------------------------------
(* structure_report.py: section mapper, interval resolver, segment builder *)

\* the lookup of the mapper, in pharma_map and then among the values of
\* the enum; NoneStr: no mapping
lookup_section(extraction_class) ==
    LET pharma_map ==
            ("document_header" :> "PREFIX") @@ ("methodology_body" :> "BODY")
                @@ ("results_body" :> "BODY") @@ ("conclusions_suffix" :> "SUFFIX")
    IN
    IF extraction_class \in DOMAIN pharma_map
    THEN pharma_map[extraction_class]
    ELSE IF \E i \in DOMAIN ReportSectionType :
                section_value(ReportSectionType[i]) = extraction_class
    THEN LET i == CHOOSE i \in DOMAIN ReportSectionType :
                    section_value(ReportSectionType[i]) = extraction_class
         IN ReportSectionType[i]
    ELSE NoneStr

\* a mapper that compares the class as it is given
map_section_exact(extraction_class) == lookup_section(extraction_class)

\* _map_section of a string; of any other value .lower() raises
\* AttributeError (see the builder)
_map_section(extraction_class) == lookup_section(str_strip(str_lower(extraction_class)))

\* a resolver that takes a missing or non-numeric endpoint for position 0
extract_positions_unchecked(start_obj, end_obj) ==
    [ok |-> TRUE,
     start |-> start_obj.v,
     end |-> IF end_obj.t = "slice" THEN end_obj.w ELSE end_obj.v]

\* _extract_positions; ok = FALSE stands for the result (None, None)
_extract_positions(start_obj, end_obj) ==
    LET start_val == IF start_obj.t = "slice" THEN IntPos(start_obj.v) ELSE start_obj
        end_val == IF end_obj.t = "slice" THEN IntPos(end_obj.w) ELSE end_obj
    IN
    IF start_val.t = "int" /\ end_val.t = "int"
    THEN [ok |-> TRUE, start |-> start_val.v, end |-> end_val.v]
    ELSE [ok |-> FALSE, start |-> 0, end |-> 0]

_get_intervals_from_extraction_dict(char_interval) ==
    IF char_interval.kind = "none" THEN <<>>
    ELSE LET positions == _extract_positions(char_interval.start_pos, char_interval.end_pos)
         IN IF positions.ok
            THEN <<FrontendIntervalDict(positions.start, positions.end)>>
            ELSE <<>>

_determine_section_label(attributes, section_type) ==
    IF attributes.kind = "dict" /\ attributes.section \notin {NoneStr, ""}
    THEN attributes.section
    ELSE display_name(section_type)

_extract_clinical_significance(attributes) ==
    IF attributes.kind = "dict" /\ attributes.clinical_significance # NoneStr
    THEN str_lower(attributes.clinical_significance)
    ELSE NoneStr

\* a builder that emits segments only for resolved intervals
create_segments_per_interval(section_type, section_label, content, intervals, significance) ==
    [i \in DOMAIN intervals |->
        Segment(section_type, section_label, content, <<intervals[i]>>, significance)]

_create_segments_for_intervals(section_type, section_label, content, intervals, significance) ==
    IF intervals = <<>>
    THEN <<Segment(section_type, section_label, content, <<>>, significance)>>
    ELSE [i \in DOMAIN intervals |->
            Segment(section_type, section_label, content, <<intervals[i]>>, significance)]

\* _build_segments_from_langextract_result: the list it returns, or
\* raised = TRUE when _map_section raised AttributeError on a class that is
\* None or not a string
RECURSIVE _build_segments_from_langextract_result(_)
_build_segments_from_langextract_result(extractions) ==
    IF extractions = <<>> THEN [raised |-> FALSE, segments |-> <<>>]
    ELSE IF ~IsStr(Head(extractions).extraction_class)
    THEN [raised |-> TRUE, segments |-> <<>>]
    ELSE LET extraction == Head(extractions)
             section_type == _map_section(extraction.extraction_class)
             \* the body of the loop for one extraction
             segments_of ==
                IF section_type = NoneStr THEN <<>>
                ELSE _create_segments_for_intervals(
                        section_type,
                        _determine_section_label(extraction.attributes, section_type),
                        extraction.extraction_text,
                        _get_intervals_from_extraction_dict(extraction.char_interval),
                        _extract_clinical_significance(extraction.attributes))
             rest == _build_segments_from_langextract_result(Tail(extractions))
         IN
         IF rest.raised THEN rest
         ELSE [raised |-> FALSE, segments |-> segments_of \o rest.segments]

----------------------------------------------------------------------------
(* structure_report.py: segment organizer *)

\* truth value of a label (str | None)
LabelTruthy(label) == label \notin {NoneStr, ""}

\* labels_in_order: the truthy labels of the segments in order of first
\* appearance; seen is the list built so far
RECURSIVE labels_in_order(_, _)
labels_in_order(segments, seen) ==
    IF segments = <<>> THEN seen
    ELSE LET label == Head(segments).label IN
         IF LabelTruthy(label) /\ \A i \in DOMAIN seen : seen[i] # label
         THEN labels_in_order(Tail(segments), Append(seen, label))
         ELSE labels_in_order(Tail(segments), seen)

\* the concatenation of body_segments_by_label[label] over the labels
RECURSIVE extend_by_label(_, _)
extend_by_label(body_segments, labels) ==
    IF labels = <<>> THEN <<>>
    ELSE SelectSeq(body_segments, LAMBDA segment : segment.label = Head(labels))
            \o extend_by_label(body_segments, Tail(labels))

\* an organizer that orders by zone only and leaves the BODY segments in
\* their input order
organize_by_zone_only(segments) ==
    SelectSeq(segments, LAMBDA segment : segment.type = "PREFIX")
        \o SelectSeq(segments, LAMBDA segment : segment.type = "BODY")
        \o SelectSeq(segments, LAMBDA segment : segment.type = "SUFFIX")

_organize_segments_by_label(segments) ==
    LET prefix_segments == SelectSeq(segments, LAMBDA segment : segment.type = "PREFIX")
        body_segments == SelectSeq(segments, LAMBDA segment : segment.type = "BODY")
        suffix_segments == SelectSeq(segments, LAMBDA segment : segment.type = "SUFFIX")
    IN
    prefix_segments
        \o extend_by_label(body_segments, labels_in_order(body_segments, <<>>))
        \o suffix_segments

----------------------------------------------------------------------------
(* structure_report.py: text renderer.  The OrderedDict grouped is a        *)
(* sequence of groups [stype, label, contents] in insertion order.          *)

\* the body of the grouping loop: setdefault, then the content is appended,
\* stripped, unless the content as it is (not stripped) is among the contents
group_add(grouped, seg) ==
    \* the index of the group with the key (type, label), 0 if there is none
    LET IsKey(i) == grouped[i].stype = seg.type /\ grouped[i].label = seg.label
        at == IF \E i \in DOMAIN grouped : IsKey(i)
              THEN CHOOSE i \in DOMAIN grouped : IsKey(i)
              ELSE 0
        g == IF at = 0
             THEN Append(grouped, [stype |-> seg.type, label |-> seg.label, contents |-> <<>>])
             ELSE grouped
        k == IF at = 0 THEN Len(g) ELSE at
    IN
    IF \E i \in DOMAIN g[k].contents : g[k].contents[i] = seg.content
    THEN g
    ELSE [g EXCEPT ![k].contents = Append(@, str_strip(seg.content))]

RECURSIVE group_all(_, _)
group_all(grouped, segments) ==
    IF segments = <<>> THEN grouped
    ELSE group_all(group_add(grouped, Head(segments)), Tail(segments))

_group_segments_by_type_and_label(segments) == group_all(<<>>, segments)

\* text with the first of the prefixes it starts with (in upper case)
\* removed; NoneStr if it starts with none of them
RECURSIVE strip_first_prefix(_, _)
strip_first_prefix(text, prefixes) ==
    IF prefixes = <<>> THEN NoneStr
    ELSE IF startswith(str_upper(text), Head(prefixes))
    THEN str_lstrip(SubSeq(text, Len(Head(prefixes)) + 1, Len(text)))
    ELSE strip_first_prefix(text, Tail(prefixes))

\* a stripper that knows the first token only
strip_examination_only(text) ==
    LET stripped == strip_first_prefix(text, <<EXAM_PREFIXES[1]>>) IN
    IF stripped # NoneStr THEN stripped ELSE str_strip(text)

_strip_exam_prefix(text) ==
    LET stripped == strip_first_prefix(text, EXAM_PREFIXES) IN
    IF stripped # NoneStr THEN stripped ELSE str_strip(text)

\* [f(c) for c in contents if f(c)], with f = _strip_exam_prefix or the identity
RECURSIVE truthy_lines(_, _)
truthy_lines(contents, exam) ==
    IF contents = <<>> THEN <<>>
    ELSE LET c == IF exam THEN _strip_exam_prefix(Head(contents)) ELSE Head(contents) IN
         (IF c # "" THEN <<c>> ELSE <<>>) \o truthy_lines(Tail(contents), exam)

\* itertools.chain.from_iterable of the contents of the groups
RECURSIVE chain_contents(_)
chain_contents(groups) ==
    IF groups = <<>> THEN <<>>
    ELSE Head(groups).contents \o chain_contents(Tail(groups))

IsExamination(label) == LabelTruthy(label) /\ str_lower(label) = EXAMINATION_LABEL

\* the loop over the PREFIX groups when structured_prefix_exists
RECURSIVE render_prefix_groups(_, _)
render_prefix_groups(groups, formatted_parts) ==
    IF groups = <<>> THEN formatted_parts
    ELSE LET g == Head(groups) IN
         render_prefix_groups(Tail(groups),
            IF IsExamination(g.label)
            THEN formatted_parts \o <<EXAMINATION_HEADER, "">>
                    \o truthy_lines(g.contents, TRUE) \o <<"">>
            ELSE formatted_parts \o truthy_lines(g.contents, FALSE) \o <<"">>)

\* _render_prefix_sections: formatted_parts as it leaves them
_render_prefix_sections(grouped, segments, formatted_parts) ==
    LET structured_prefix_exists ==
            \E i \in DOMAIN segments :
                /\ segments[i].type = "PREFIX"
                /\ LabelTruthy(segments[i].label)
                /\ str_lower(segments[i].label) # PREFIX_LABEL
        prefix_groups == SelectSeq(grouped, LAMBDA g : g.stype = "PREFIX")
        plain_prefix == chain_contents(prefix_groups)
    IN
    IF structured_prefix_exists
    THEN render_prefix_groups(prefix_groups, formatted_parts)
    ELSE IF plain_prefix # <<>>
    THEN Append(formatted_parts, str_rstrip(str_join("\n\n", plain_prefix)))
    ELSE formatted_parts

\* the loop over body_items
RECURSIVE render_body_items(_, _)
render_body_items(body_items, formatted_parts) ==
    IF body_items = <<>> THEN formatted_parts
    ELSE LET combined == str_strip(str_join(" ", Head(body_items).contents))
             label == Head(body_items).label
             \* f"{label}" of the label
             format_label == IF label = NoneStr THEN "None" ELSE label
         IN
         render_body_items(Tail(body_items),
            IF combined # ""
            THEN formatted_parts \o <<format_label \o ": " \o combined, "">>
            ELSE formatted_parts)

_render_body_sections(grouped, formatted_parts) ==
    LET body_items == SelectSeq(grouped, LAMBDA g : g.stype = "BODY") IN
    IF body_items # <<>>
    THEN render_body_items(body_items,
            (IF formatted_parts # <<>> THEN Append(formatted_parts, "") ELSE formatted_parts)
                \o <<FINDINGS_HEADER, "">>)
    ELSE formatted_parts

_render_suffix_sections(grouped, formatted_parts) ==
    LET suffix_items == SelectSeq(grouped, LAMBDA g : g.stype = "SUFFIX") IN
    IF suffix_items # <<>>
    THEN (IF formatted_parts # <<>> /\ str_strip(formatted_parts[Len(formatted_parts)]) # ""
          THEN Append(formatted_parts, "")
          ELSE formatted_parts)
            \o <<IMPRESSION_HEADER, "",
                 str_rstrip(str_join("\n", chain_contents(suffix_items)))>>
    ELSE formatted_parts

\* a renderer that puts the suffix block before the body block
formatted_parts_suffix_first(segments) ==
    LET grouped == _group_segments_by_type_and_label(segments) IN
    _render_body_sections(grouped,
        _render_suffix_sections(grouped,
            _render_prefix_sections(grouped, segments, <<>>)))

\* formatted_parts after the three render calls
formatted_parts_of(segments) ==
    LET grouped == _group_segments_by_type_and_label(segments) IN
    _render_suffix_sections(grouped,
        _render_body_sections(grouped,
            _render_prefix_sections(grouped, segments, <<>>)))

_format_segments_to_text(segments) == str_rstrip(str_join("\n", formatted_parts_of(segments)))

----------------------------------------------------------------------------
(* structure_report.py: the inputs of the pipeline and its stages *)

MaxExtractions == 2   \* longest extraction list drawn from ExtractionSet
MaxSegments == 3      \* longest segment list handed to the organizer directly

\* the three extractions of the rendering scenario
ScenarioExtractions ==
    { Extraction("document_header", "STUDY TITLE: X",
                 Attributes("Study Title", NoneStr), NoInterval),
      Extraction("results_body", "p<0.001",
                 Attributes("Primary Endpoint", NoneStr), NoInterval),
      Extraction("conclusions_suffix", "Drug is effective.", NoAttributes, NoInterval) }

\* the scenario in every input order
ScenarioLists ==
    { <<a, b, c>> : a, b, c \in ScenarioExtractions } \cap
        { s \in [1..3 -> ScenarioExtractions] : \A i, j \in 1..3 : s[i] = s[j] => i = j }

\* what the engine can return for one extraction: the scenario; classes
\* that are the table names, the enum values, names in other letter case or
\* with blanks around them, names outside both tables, the empty string,
\* None or not a string; attributes that are not a mapping, an empty section
\* label with a significance, a section label alone; spans that are well
\* formed, reversed, empty, starting before the text, with one endpoint
\* missing, with an endpoint that is not a number, with slice endpoints
ExtractionSet ==
    ScenarioExtractions
        \cup { Extraction(c, "a", NoAttributes, NoInterval) :
                c \in {"document_header", "methodology_body", "results_body",
                       "conclusions_suffix", "findings_prefix", "findings_body",
                       "findings_suffix", " Results_Body ", "FINDINGS_SUFFIX",
                       "invalid_section", "prefix", "", NoneStr, NotAStr} }
        \cup { Extraction("results_body", "b", a, NoInterval) :
                a \in {NotAMapping, Attributes("", "Minor"), Attributes("Dose", NoneStr)} }
        \cup { Extraction("conclusions_suffix", "c", NoAttributes, iv) :
                iv \in { CharInterval(IntPos(3), IntPos(7)),
                         CharInterval(IntPos(7), IntPos(3)),
                         CharInterval(IntPos(4), IntPos(4)),
                         CharInterval(IntPos(0 - 1), IntPos(4)),
                         CharInterval(IntPos(3), NonePos),
                         CharInterval(TextPos, IntPos(7)),
                         CharInterval(SlicePos(3, 5), SlicePos(5, 7)) } }

\* Segment values: any zone, labels that are None, empty, a zone default,
\* "examination" in two letter cases or another name, contents with and
\* without blanks or an examination token in front
SegmentSet ==
    { Segment("PREFIX", EXAMINATION_LABEL, c, <<>>, NoneStr) :
            c \in {"EXAM: a", "exam:  a", "Study: a", "examination: a", "a", " a"} }
        \cup { Segment("PREFIX", l, "EXAM: a", <<>>, NoneStr) :
                    l \in {"Examination", PREFIX_LABEL, "Title"} }
        \cup { Segment("BODY", "L", c, <<>>, NoneStr) : c \in {"a", " a"} }
        \cup { Segment("BODY", l, "a", <<>>, NoneStr) : l \in {"M", "", NoneStr} }
        \cup { Segment("SUFFIX", "suffix", c, <<>>, NoneStr) : c \in {"a", " a"} }
        \cup { Segment("SUFFIX", NoneStr, "a", <<>>, NoneStr) }

\* the engine has returned a list of extractions to _build_response
InitBuild ==
    /\ InitStore
    /\ sample_reports = <<>>
    /\ keycall = NoKeyCall
    /\ run \in { Run("input", extractions, <<>>) :
                    extractions \in SeqsUpTo(ExtractionSet, MaxExtractions) \cup ScenarioLists }

\* the organizer is handed a list of Segment values
InitSegments ==
    /\ InitStore
    /\ sample_reports = <<>>
    /\ keycall = NoKeyCall
    /\ run \in { Run("built", <<>>, segments) : segments \in SeqsUpTo(SegmentSet, MaxSegments) }

\* _build_response, first statement; an AttributeError of the builder is
\* caught by predict, which returns the error payload: an explanatory text
\* and an empty segment list
BuildSegments ==
    /\ run.stage = "input"
    /\ LET built == _build_segments_from_langextract_result(run.extractions) IN
       run' = IF built.raised
              THEN [run EXCEPT !.stage = "failed", !.text = "Error processing report"]
              ELSE [run EXCEPT !.stage = "built", !.segments = built.segments]
    /\ UNCHANGED <<cache_data, file, lock, pc, sample_reports, batch, computed, keycall, nops, ev, rebuild>>

\* _build_response, second statement
OrganizeSegments ==
    /\ run.stage = "built"
    /\ run' = [run EXCEPT !.stage = "organized",
                          !.organized = _organize_segments_by_label(run.segments)]
    /\ UNCHANGED <<cache_data, file, lock, pc, sample_reports, batch, computed, keycall, nops, ev, rebuild>>

\* _build_response, the "text" entry of the response
FormatSegments ==
    /\ run.stage = "organized"
    /\ run' = [run EXCEPT !.stage = "rendered",
                          !.text = _format_segments_to_text(run.organized)]
    /\ UNCHANGED <<cache_data, file, lock, pc, sample_reports, batch, computed, keycall, nops, ev, rebuild>>

----------------------------------------------------------------------------
(* tools/rebuild_cache.py: the script that rebuilds the cache *)

MaxSamples == 2    \* longest sample list in static/sample_reports.json

\* attempts the while loop grants one sample
RETRY_LIMIT == 5

\* the entries of the "samples" list: each has an 'id' and a 'text'; one
\* text is empty, so that structurer.predict raises for it on every attempt
RebuildSamples ==
    { Item(id, <<"x">>) : id \in {<<"a">>, <<"b">>, SamplePrefix \o <<"a">>} }
        \cup {Item(<<"a">>, <<>>)}

\* a retry loop without a budget
retry_unbounded(retries) == TRUE

\* the condition of the while loop
retry_allowed(retries) == retries < RETRY_LIMIT

\* the script is started over some sample list
InitRebuild ==
    /\ InitStore
    /\ sample_reports \in SeqsUpTo(RebuildSamples, MaxSamples)
    /\ keycall = NoKeyCall
    /\ run = NoRun

\* CacheManager(cache_dir="cache") and cache.clear_cache()
RebuildStart(p) ==
    /\ rebuild.stage = "idle"
    /\ \E outcome \in SaveOutcomes :
        /\ cache_data' = [cache_data EXCEPT ![p] = EmptyMap]
        /\ file' = _save_cache(EmptyMap, file, outcome)
    /\ rebuild' = [rebuild EXCEPT !.stage = "loop", !.i = 1,
                                  !.attempts = [k \in DOMAIN sample_reports |-> 0]]
    /\ UNCHANGED <<lock, pc, sample_reports, batch, computed, keycall, nops, ev, run>>

\* one pass of the while loop for the sample s: structurer.predict returns
\* the structured response, returns the error payload for an engine error it
\* catches, or raises; a returned result is stored and ends the while loop,
\* an exception is counted.  When the count reaches the limit the else
\* clause of the while loop reports the sample and the for loop moves on.
RebuildAttempt(p) ==
    /\ rebuild.stage = "loop"
    /\ rebuild.i <= Len(sample_reports)
    /\ retry_allowed(rebuild.retries)
    /\ LET i == rebuild.i
           s == sample_reports[i]
           tried == [rebuild EXCEPT !.attempts[i] = @ + 1]
       IN
       \E engine \in {"structured", "caught", "raised"} :
           IF engine = "raised" \/ strip(s.text) = <<>>
           THEN /\ rebuild' =
                     IF retry_allowed(rebuild.retries + 1)
                     THEN [tried EXCEPT !.retries = @ + 1]
                     ELSE [tried EXCEPT !.retries = 0, !.i = i + 1,
                                        !.skipped = @ \cup {i}]
                /\ UNCHANGED <<cache_data, file>>
           ELSE \E outcome \in SaveOutcomes :
                LET result == IF engine = "structured" THEN StructuredPayload
                              ELSE ErrorPayload
                    after == cache_result(cache_data[p], file, s.text, result, s.id, outcome)
                IN
                /\ cache_data' = [cache_data EXCEPT ![p] = after.map]
                /\ file' = after.file
                /\ rebuild' = [tried EXCEPT !.retries = 0, !.i = i + 1,
                                            !.stored = @ \cup {i}]
    /\ UNCHANGED <<lock, pc, sample_reports, batch, computed, keycall, nops, ev, run>>

\* the for loop is exhausted: "Cache rebuild completed successfully."
RebuildEnd ==
    /\ rebuild.stage = "loop"
    /\ rebuild.i > Len(sample_reports)
    /\ rebuild' = [rebuild EXCEPT !.stage = "done"]
    /\ UNCHANGED <<cache_data, file, lock, pc, sample_reports, batch, computed, keycall, nops, ev, run>>

----------------------------------------------------------------------------
(* The workers *)

BatchSteps(p) ==
    \/ WriteLock(p)
    \/ LoopItem(p)
    \/ LoopEnd(p)
    \/ FinallyCheck(p)
    \/ FinallyRemove(p)

\* the web application: one worker process, one CacheManager (main.py)
Next ==
    \/ Construct(Server)
    \/ GetCachedResult(Server)
    \/ CacheResult(Server)
    \/ ClearCache(Server)
    \/ RemoveSample(Server)
    \/ Predict(Server)

Spec == Init /\ [][Next]_vars

\* two worker processes that share the cache directory, each with its own
\* CacheManager
NextShared ==
    \E p \in Procs :
        \/ Construct(p)
        \/ CacheResult(p)
        \/ ClearCache(p)
        \/ RemoveSample(p)

SpecShared == Init /\ [][NextShared]_vars

\* batch population run by both workers
NextBatch ==
    \E p \in Procs :
        \/ \E force_refresh \in BOOLEAN : PrepopulateOp(p, force_refresh)
        \/ BatchSteps(p)

SpecBatch == InitBatch /\ [][NextBatch]_vars

\* one worker that runs batch population and, when the call has returned,
\* runs it again with the same list, both times without force
NextTwice == PrepopulateOp(Server, FALSE) \/ BatchSteps(Server)

SpecTwice == InitBatch /\ [][NextTwice]_vars

\* the key function called at different times while the store changes
NextKey ==
    \/ GetCacheKey(Server)
    \/ CacheResult(Server)
    \/ ClearCache(Server)

SpecKey == InitKey /\ [][NextKey]_vars

\* one run of the pipeline over the extractions the engine returned
NextBuild == BuildSegments \/ OrganizeSegments \/ FormatSegments

SpecBuild == InitBuild /\ [][NextBuild]_vars

\* organizer and renderer over segment lists
NextSegments == OrganizeSegments \/ FormatSegments

SpecSegments == InitSegments /\ [][NextSegments]_vars

\* the rebuild script: one process that runs from its first statement to its
\* last; nothing else takes part, so a step that is possible is taken
NextRebuild == RebuildStart(Server) \/ RebuildAttempt(Server) \/ RebuildEnd

SpecRebuild == InitRebuild /\ [][NextRebuild]_vars /\ WF_vars(NextRebuild)

----------------------------------------------------------------------------
(* Properties *)

\* the step is the whole handler op of the single-step handlers
Handled(op) == nops' = nops + 1 /\ ev'.op = op

C2_LockedBatchIsSkipped ==
    [][\A p \in Procs :
        \* worker p starts a batch population call in this step
        LET Invoked == batch'[p].callno = batch[p].callno + 1 IN
        (Invoked /\ lock /\ ~batch'[p].force /\ sample_reports # <<>>) =>
            /\ pc'[p] = "idle"
            /\ computed'[p] = {}
            /\ cache_data' = cache_data
            /\ file' = file
            /\ lock']_vars

\* a call without force has been turned away by the marker of a call of the
\* other worker that is still inside its loop
C2_Witness ==
    \E p, q \in Procs :
        /\ batch[p].callno >= 1 /\ ~batch[p].passed /\ ~batch[p].force
        /\ sample_reports # <<>>
        /\ pc[p] = "idle"
        /\ pc[q] = "loop"
        /\ lock

\* C3: a call that got past the lock check has created the marker before it
\* processes an item, and the marker is absent when it returns, whatever
\* happened in between.
C3_MarkerWrittenThenRemoved ==
    [][\A p \in Procs :
        \* worker p leaves a batch population call in this step
        LET Returns == pc[p] \in {"finally", "remove"} /\ pc'[p] = "idle" IN
        /\ pc'[p] = "loop" => batch'[p].wrote
        /\ (Returns /\ batch[p].passed) => ~lock']_vars

\* a call has returned after its loop was left by an exception, the marker
\* gone
C3_Witness ==
    \E p \in Procs :
        /\ batch[p].passed /\ batch[p].wrote
        /\ pc[p] = "idle"
        /\ batch[p].i <= Len(sample_reports)
        /\ ~sample_reports[batch[p].i].dict
        /\ ~lock

\* C4: cache_result followed at once by get_cached_result with the same
\* text and id returns the payload that was stored, also when the write to
\* the file failed.
C4_RoundTrip ==
    [][Handled("cache_result") =>
        \A text \in Texts, id \in Ids, result \in Results, outcome \in SaveOutcomes :
            CacheResultOp(Server, text, result, id, outcome) =>
                get_cached_result(cache_data'[Server], text, id) = result]_vars

\* a cache_result whose write failed has completed and its entry is in the map
C4_Witness ==
    /\ ev.op = "cache_result"
    /\ ~ev.flag
    /\ cache_data[Server] # EmptyMap
    /\ file.st # "ok"

\* C5 as stated: remove_sample(id) returns False and changes nothing when
\* no entry is stored for the id; it returns True when an entry was stored
\* with cache_result(text, payload, id), and get_cached_result(text, id) is
\* absent afterwards.
C5_RemoveSample ==
    [][Handled("remove_sample") =>
       \A id \in Ids \ {None, <<>>}, outcome \in SaveOutcomes :
        RemoveSampleOp(Server, id, outcome) =>
            IF _get_cache_key(<<>>, id) \in DOMAIN cache_data[Server]
            THEN /\ ev'.status = "True"
                 /\ \A text \in Texts :
                        get_cached_result(cache_data'[Server], text, id).isNone
            ELSE /\ ev'.status = "False"
                 /\ cache_data' = cache_data
                 /\ file' = file]_vars

\* C6 as stated, for the mutations whose write to the file succeeded: after
\* cache_result, remove_sample, clear_cache and the caching step of /predict
\* the file holds exactly the in-memory map.
C6_WriteThroughMirror ==
    (/\ ev.flag
     /\ \/ ev.op \in {"cache_result", "clear_cache"}
        \/ ev.op = "remove_sample" /\ ev.status = "True"
        \/ ev.op = "predict" /\ ev.status = "200 cached")
        => file = FileOk(cache_data[Server])

\* C7 as stated: get_cached_result and the cache-hit branch of /predict
\* change neither the in-memory map nor the file.
C7_HitIsPureRead ==
    [][(\/ Handled("get_cached_result")
        \/ Handled("predict") /\ ev'.status = "200 from_cache")
            => (cache_data' = cache_data /\ file' = file)]_vars

\* C8 as stated: the failure payload is never stored under any key, in the
\* map or in the file.
C8_FailureNeverStored ==
    \* the payload structurer.predict returns for an engine failure, with or
    \* without the sanitized_input that /predict adds
    LET IsFailurePayload(r) ==
            r.text = ErrorPayload.text /\ r.segments = ErrorPayload.segments
    IN
    /\ \A k \in DOMAIN cache_data[Server] : ~IsFailurePayload(cache_data[Server][k])
    /\ \A k \in DOMAIN file.data : ~IsFailurePayload(file.data[k])

\* C9 as stated, for cache_result calls whose write succeeded: a completed
\* cache_result of either worker leaves every entry of the file in the file.
C9_EntriesPersist ==
    [][(Handled("cache_result") /\ ev'.flag) =>
            \A k \in DOMAIN file.data : k \in DOMAIN file'.data]_vars

\* C10 as stated, for the supplied ids without the prefix: the key is
\* "sample_" + id.
C10_SuppliedIdIsPrefixed ==
    \A i \in 1..Len(keycall.keys) :
        (keycall.id # None /\ ~startswith(keycall.id, SamplePrefix)) =>
            keycall.keys[i] = SamplePrefix \o keycall.id

\* C10 as amended: the calls with one (text, id) pair return the same key
\* whatever the store holds; a non-empty id without the prefix yields
\* "sample_" + id, a non-empty id with the prefix is returned as it is, and
\* without an id or with the empty id the key is "custom_" + hash of the text.
C10_KeyStability ==
    \A i \in 1..Len(keycall.keys) :
        LET key == keycall.keys[i]
            id == keycall.id
        IN
        /\ key = keycall.keys[1]
        /\ (StrTruthy(id) /\ ~startswith(id, SamplePrefix)) =>
                /\ SubSeq(key, 1, Len(SamplePrefix)) = SamplePrefix
                /\ SubSeq(key, Len(SamplePrefix) + 1, Len(key)) = id
        /\ (StrTruthy(id) /\ startswith(id, SamplePrefix)) =>
                /\ key = id
                /\ ~startswith(key, SamplePrefix \o SamplePrefix)
        /\ ~StrTruthy(id) =>
                /\ SubSeq(key, 1, Len(CustomPrefix)) = CustomPrefix
                /\ SubSeq(key, Len(CustomPrefix) + 1, Len(key)) = md5_hexdigest(keycall.text)

\* the key of an already prefixed id was computed twice, with a different
\* number of entries in the store
C10_Witness ==
    /\ Len(keycall.keys) >= 2
    /\ keycall.sizes[1] # keycall.sizes[2]
    /\ startswith(keycall.id, SamplePrefix)

C12_IOErrorsAbsorbed ==
    \* FailedWrite: what a failed _save_cache can leave of the file f, f
    \* itself or a file that open() truncated
    [][LET FailedWrite(f) == {f, FileCorrupt} IN
       /\ (Handled("construct") /\ (file.st # "ok" \/ ~ev'.flag)) =>
                /\ cache_data'[Server] = EmptyMap
                /\ file' = file
       /\ (Handled("cache_result") /\ ~ev'.flag) =>
                /\ \E text \in Texts, id \in Ids, result \in Results :
                        cache_data'[Server] =
                            MapPut(cache_data[Server], _get_cache_key(text, id), result)
                /\ file' \in FailedWrite(file)
       /\ (Handled("clear_cache") /\ ~ev'.flag) =>
                /\ cache_data'[Server] = EmptyMap
                /\ file' \in FailedWrite(file)
       /\ (Handled("remove_sample") /\ ~ev'.flag /\ ev'.status = "True") =>
                /\ \E id \in Ids \ {None} :
                        /\ remove_key(id) \in DOMAIN cache_data[Server]
                        /\ cache_data'[Server] = MapDel(cache_data[Server], remove_key(id))
                /\ file' \in FailedWrite(file)]_vars

\* a CacheManager has been constructed over a file that a torn write left
\* unparseable, and its read was attempted
C12_Witness ==
    /\ ev.op = "construct"
    /\ ev.flag
    /\ file.st = "corrupt"
    /\ cache_data[Server] = EmptyMap

----------------------------------------------------------------------------
(* Properties of the structuring pipeline *)

\* every extraction of the run has a string as its class
ClassesAreStrings ==
    \A i \in DOMAIN run.extractions : IsStr(run.extractions[i].extraction_class)

\* the extractions of the list whose class maps to a zone, in input order
MappedExtractions(extractions) ==
    SelectSeq(extractions,
              LAMBDA e : IsStr(e.extraction_class) /\ _map_section(e.extraction_class) # NoneStr)

Built == run.stage \in {"built", "organized", "rendered"}
Organized == run.stage \in {"organized", "rendered"}

\* C13: for every list of extractions whose classes are strings, the builder
\* returns one segment per extraction whose class maps to a zone, in input
\* order, each carrying the extraction's text and at most one interval, and
\* none for an extraction whose class maps to no zone; the organizer returns
\* as many segments as it was given.
C13_OneSegmentPerMappedExtraction ==
    LET mapped == MappedExtractions(run.extractions) IN
    ClassesAreStrings =>
        /\ run.stage # "failed"
        /\ Built =>
                /\ Len(run.segments) = Len(mapped)
                /\ \A k \in DOMAIN run.segments :
                        /\ run.segments[k].content = mapped[k].extraction_text
                        /\ run.segments[k].type = _map_section(mapped[k].extraction_class)
                        /\ Len(run.segments[k].intervals) <= 1
        /\ Organized => Len(run.organized) = Len(run.segments)

\* a list of an extraction of an unknown class and a mapped extraction with
\* a span has been built and organized into one segment with one interval
C13_Witness ==
    /\ Organized
    /\ ClassesAreStrings
    /\ Len(run.extractions) = 2
    /\ Len(run.organized) = 1
    /\ Len(run.organized[1].intervals) = 1

\* C14 as stated: every interval of an emitted segment has
\* endPos > startPos >= 0.
C14_IntervalInvariant ==
    \A k \in DOMAIN run.segments :
        \A n \in DOMAIN run.segments[k].intervals :
            LET interval == run.segments[k].intervals[n] IN
            interval.endPos > interval.startPos /\ interval.startPos >= 0

\* C15 as stated: the organizer returns a permutation of the list it was
\* given, with every PREFIX segment before every BODY segment before every
\* SUFFIX segment, and with the PREFIX and the SUFFIX segments in their
\* original relative order.
C15_StablePermutation ==
    \* number of occurrences of x in the sequence s; the place of a zone in
    \* the presentation order
    LET Count(s, x) == Cardinality({i \in DOMAIN s : s[i] = x})
        ZoneRank(type) ==
            CHOOSE i \in DOMAIN ReportSectionType : ReportSectionType[i] = type
    IN
    Organized =>
        /\ \A i \in DOMAIN run.segments :
                Count(run.organized, run.segments[i]) = Count(run.segments, run.segments[i])
        /\ Len(run.organized) = Len(run.segments)
        /\ \A i, j \in DOMAIN run.organized :
                i < j => ZoneRank(run.organized[i].type) <= ZoneRank(run.organized[j].type)
        /\ \A zone \in {"PREFIX", "SUFFIX"} :
                SelectSeq(run.organized, LAMBDA s : s.type = zone)
                    = SelectSeq(run.segments, LAMBDA s : s.type = zone)

\* the segments without those that repeat the zone, label and content of
\* an earlier one
RECURSIVE drop_repeats(_, _)
drop_repeats(segments, kept) ==
    IF segments = <<>> THEN kept
    ELSE LET s == Head(segments) IN
         IF \E i \in DOMAIN kept :
                /\ kept[i].type = s.type
                /\ kept[i].label = s.label
                /\ kept[i].content = s.content
         THEN drop_repeats(Tail(segments), kept)
         ELSE drop_repeats(Tail(segments), Append(kept, s))

\* C16 as stated: segments that repeat the zone, label and content of an
\* earlier segment add nothing to the rendered text: the text is that of the
\* list with only the first occurrence of each.
C16_RendererDedup ==
    run.stage = "rendered" =>
        run.text = _format_segments_to_text(drop_repeats(run.organized, <<>>))

\* C17 as stated: whatever malformed extraction the list contains, the run
\* is not aborted and the builder returns the segments of the extractions
\* whose class is a string that maps to a zone.
C17_MalformedNeverAborts ==
    LET mapped == MappedExtractions(run.extractions) IN
    /\ run.stage # "failed"
    /\ Built =>
            /\ Len(run.segments) = Len(mapped)
            /\ \A k \in DOMAIN run.segments :
                    run.segments[k].content = mapped[k].extraction_text

\* C18: the three scenario extractions, in any input order, render as a text
\* whose first line is "STUDY TITLE: X" and whose non-blank lines are, in
\* order: that line, the FINDINGS: banner, "Primary Endpoint: p<0.001", the
\* IMPRESSION: banner, "Drug is effective.".
C18_Scenario ==
    LET lines == split_lines(run.text, "")
        NonBlankLines == SelectSeq(lines, LAMBDA l : str_strip(l) # "")
    IN
    (run.stage = "rendered" /\ run.extractions \in ScenarioLists) =>
        /\ Head(lines) = "STUDY TITLE: X"
        /\ NonBlankLines =
                <<"STUDY TITLE: X", FINDINGS_HEADER, "Primary Endpoint: p<0.001",
                  IMPRESSION_HEADER, "Drug is effective.">>

\* the scenario has been rendered from the input order conclusion, results,
\* header
C18_Witness ==
    /\ run.stage = "rendered"
    /\ run.extractions \in ScenarioLists
    /\ run.extractions[1].extraction_class = "conclusions_suffix"
    /\ run.extractions[3].extraction_class = "document_header"

\* C19: when the list holds a PREFIX segment labelled "examination" (in any
\* letter case), the text has the EXAMINATION: banner, also when that is the
\* only prefix segment; the content of every such segment is a line after
\* the banner, without its leading token and the whitespace after it, or
\* only trimmed if it has no token; and when every PREFIX segment is
\* labelled so, no other line of the text starts with a token.
C19_ExaminationBanner ==
    LET lines == split_lines(run.text, "")
        banners == {i \in DOMAIN lines : lines[i] = EXAMINATION_HEADER}
        ExamTokens == {EXAM_PREFIXES[i] : i \in DOMAIN EXAM_PREFIXES}
        \* the content starts with the token, in any letter case
        HasToken(content, token) == startswith(str_upper(content), token)
        \* what the claim prints for a content under the banner
        ExamLine(content) ==
            LET c == str_strip(content) IN
            IF \E token \in ExamTokens : HasToken(c, token)
            THEN LET token == CHOOSE token \in ExamTokens : HasToken(c, token)
                 IN str_lstrip(SubSeq(c, Len(token) + 1, Len(c)))
            ELSE c
        \* the PREFIX segments of the organized list labelled "examination"
        ExamSegments ==
            SelectSeq(run.organized,
                      LAMBDA s : s.type = "PREFIX" /\ IsExamination(s.label))
    IN
    (run.stage = "rendered" /\ ExamSegments # <<>>) =>
        /\ banners # {}
        /\ \A k \in DOMAIN ExamSegments :
                \E b \in banners, i \in DOMAIN lines :
                    i > b /\ lines[i] = ExamLine(ExamSegments[k].content)
        /\ (\A k \in DOMAIN run.organized :
                run.organized[k].type = "PREFIX" => IsExamination(run.organized[k].label)) =>
                \A i \in DOMAIN lines \ banners :
                    \A token \in ExamTokens : ~HasToken(lines[i], token)

\* a list whose only segment is a PREFIX segment labelled "examination" with
\* a lower-case token and two blanks has been rendered as the banner and
\* the bare content
C19_Witness ==
    /\ run.stage = "rendered"
    /\ run.segments = <<Segment("PREFIX", EXAMINATION_LABEL, "exam:  a", <<>>, NoneStr)>>
    /\ run.text = "EXAMINATION:\n\na"

\* C20: for extraction lists whose classes are strings, the builder returns
\* one segment for every extraction whose lower-cased, trimmed class is in
\* the claim's table, in the zone the table gives, and none for any other
\* class, the empty string included; the run does not fail.
C20_SectionMapper ==
    \* the zone the claim gives to the class of an extraction
    LET ExpectedZone(e) ==
            LET class == str_strip(str_lower(e.extraction_class)) IN
            CASE class \in {"document_header", "findings_prefix"} -> "PREFIX"
              [] class \in {"methodology_body", "results_body", "findings_body"} -> "BODY"
              [] class \in {"conclusions_suffix", "findings_suffix"} -> "SUFFIX"
              [] OTHER -> NoneStr
        ExpectedMapped ==
            SelectSeq(run.extractions, LAMBDA e : ExpectedZone(e) # NoneStr)
    IN
    ClassesAreStrings =>
        /\ run.stage # "failed"
        /\ Built =>
                /\ Len(run.segments) = Len(ExpectedMapped)
                /\ \A k \in DOMAIN run.segments :
                        run.segments[k].type = ExpectedZone(ExpectedMapped[k])

\* a list of an extraction with the empty class and one with the class
\* " Results_Body " has been built into one BODY segment
C20_Witness ==
    /\ Built
    /\ Len(run.extractions) = 2
    /\ run.extractions[1].extraction_class = ""
    /\ run.extractions[2].extraction_class = " Results_Body "
    /\ Len(run.segments) = 1
    /\ run.segments[1].type = "BODY"

\* C21 as stated: every request whose text is empty or blank, as received
\* or after preprocessing, is answered with 400 "Empty input", never with
\* 500 and never with a payload.
C21_EmptyInputIsDistinct ==
    [][Handled("predict") =>
       \A data \in RawInputs, sample_id \in Ids, use_cache \in BOOLEAN :
        (/\ PredictOp(Server, data, sample_id, use_cache)
         /\ (strip(data) = <<>> \/ strip(preprocess_report(data)) = <<>>))
            => ev'.status = "400 Empty input"]_vars

\* C22 as stated: for a request whose text is not empty, as received and
\* after preprocessing, and that is not answered from the cache,
\* structurer.predict returns a payload whatever the engine call does: the
\* request is not answered with 500.
C22_EngineFailureBecomesPayload ==
    [][Handled("predict") =>
       \A data \in RawInputs, sample_id \in Ids, use_cache \in BOOLEAN :
        (/\ PredictOp(Server, data, sample_id, use_cache)
         /\ Len(data) <= MAX_INPUT_LENGTH
         /\ strip(preprocess_report(data)) # <<>>)
            => ev'.status \in {"200 from_cache", "200 cached", "200"}]_vars

\* C23: the lock is check-then-create.  A call without force passes the
\* lock check exactly when the marker is absent, whatever the other worker
\* is doing, and passing the check leaves the marker absent; the marker
\* appears only in a later step of a worker that has passed the check.  So
\* two calls can both pass the check before either has written the marker
\* (the interleaving itself is C23_Witness).
C23_CheckThenCreate ==
    [][\A p \in Procs :
        LET Invoked == batch'[p].callno = batch[p].callno + 1 IN
        /\ (Invoked /\ ~batch'[p].force /\ sample_reports # <<>>) =>
                /\ batch'[p].passed = ~lock
                /\ lock' = lock
        /\ (lock' /\ ~lock) => \E q \in Procs : pc[q] = "lock" /\ pc'[q] # "lock"]_vars

\* two calls, both without force, have both passed the lock check and
\* written the marker, and both are inside the loop with an item still to
\* process
C23_Witness ==
    \E p, q \in Procs :
        /\ p # q
        /\ \A w \in {p, q} :
                /\ pc[w] = "loop"
                /\ ~batch[w].force /\ batch[w].passed /\ batch[w].wrote
                /\ batch[w].i <= Len(sample_reports)

\* C24 as stated: in every state in which some call is between writing the
\* marker and its finally block, the marker is present, for concurrent
\* calls, forced or not.
C24_MarkerWhileInFlight ==
    \A p \in Procs : (pc[p] = "loop" /\ batch[p].wrote) => lock

\* C25 as stated: in one iteration of the loop (the step that moves the
\* index of worker p), an item lacking id or text is skipped; without force,
\* the compute function is not invoked for an item whose key already holds
\* a payload and the entry is left unchanged; with force it is invoked for
\* every item with id and text and its result overwrites the entry.
C25_BatchSkipsStored ==
    [][\A p \in Procs :
        LET i == batch[p].i
            sample == sample_reports[i]
            key == _get_cache_key(sample.text, sample.id)
            complete == StrTruthy(sample.id) /\ sample.text # <<>>
            invoked == i \in computed'[p]
            \* what the compute function returned, if it returned
            result == IF i \in batch'[p].done THEN StructuredPayload ELSE EmptyPayload
        IN
        (pc[p] = "loop" /\ batch'[p].i = i + 1) =>
            /\ ~complete => (~invoked /\ cache_data' = cache_data /\ file' = file)
            /\ (complete /\ ~batch[p].force /\ key \in DOMAIN cache_data[p]) =>
                    (~invoked /\ cache_data' = cache_data /\ file' = file)
            /\ (complete /\ batch[p].force) =>
                    /\ invoked
                    /\ i \notin batch'[p].raised => MapGet(cache_data'[p], key) = result]_vars

\* C25 as amended: the same, with the skip without force only for an item
\* whose key holds a non-empty payload; an item with id and text whose key
\* holds no payload or an empty one is computed.
C25_BatchSkipsCached ==
    [][\A p \in Procs :
        LET i == batch[p].i
            sample == sample_reports[i]
            key == _get_cache_key(sample.text, sample.id)
            complete == StrTruthy(sample.id) /\ sample.text # <<>>
            invoked == i \in computed'[p]
            result == IF i \in batch'[p].done THEN StructuredPayload ELSE EmptyPayload
            hit == Truthy(MapGet(cache_data[p], key))
        IN
        (pc[p] = "loop" /\ batch'[p].i = i + 1) =>
            /\ ~complete => (~invoked /\ cache_data' = cache_data /\ file' = file)
            /\ (complete /\ ~batch[p].force /\ hit) =>
                    (~invoked /\ cache_data' = cache_data /\ file' = file)
            /\ (complete /\ ~batch[p].force /\ ~hit) => invoked
            /\ (complete /\ batch[p].force) =>
                    /\ invoked
                    /\ i \notin batch'[p].raised => MapGet(cache_data'[p], key) = result]_vars

\* a forced call has returned after it skipped a first item without id and
\* computed again the second item, which the worker's earlier call had
\* cached
C25_Witness ==
    \E p \in Procs :
        /\ pc[p] = "idle"
        /\ batch[p].callno = 2 /\ batch[p].force
        /\ Len(sample_reports) = 2
        /\ ~StrTruthy(sample_reports[1].id)
        /\ batch[p].prev_done = {2}
        /\ computed[p] = {2}
        /\ batch[p].done = {2}

\* C26: among the BODY segments of the organizer's output, the segments of
\* one label are adjacent, the labels appear in the order of their first
\* appearance among the BODY segments of the input, the segments of one
\* label are those of the input in the input's order, and organizing the
\* output again returns it unchanged.
C26_BodyRegroupedByLabel ==
    LET IsBody(s) == s.type = "BODY"
        input == SelectSeq(run.segments, IsBody)
        output == SelectSeq(run.organized, IsBody)
        First(s, label) == CHOOSE i \in DOMAIN s :
                                /\ s[i].label = label
                                /\ \A j \in 1..(i - 1) : s[j].label # label
        OfLabel(s, label) == SelectSeq(s, LAMBDA x : x.label = label)
    IN
    Organized =>
        /\ \A i, j, k \in DOMAIN output :
                (i < j /\ j < k /\ output[i].label = output[k].label) =>
                    output[j].label = output[i].label
        /\ \A i, j \in DOMAIN output :
                /\ \E n \in DOMAIN input : input[n].label = output[i].label
                /\ (i < j /\ output[i].label # output[j].label) =>
                        First(input, output[i].label) < First(input, output[j].label)
                /\ OfLabel(output, output[i].label) = OfLabel(input, output[i].label)
        /\ _organize_segments_by_label(run.organized) = run.organized

\* a list whose BODY segments carry the labels L, M, L has been organized
\* into L, L, M
C26_Witness ==
    /\ Organized
    /\ Len(run.segments) = 3
    /\ \A i \in 1..3 : run.segments[i].type = "BODY"
    /\ <<run.segments[1].label, run.segments[2].label, run.segments[3].label>>
            = <<"L", "M", "L">>
    /\ run.organized = <<run.segments[1], run.segments[3], run.segments[2]>>

\* C27: when the builder has returned, every extraction whose class maps to
\* a zone and whose span is present with an endpoint that is missing or is
\* not a number has exactly one segment, at its place among the segments,
\* with an empty interval list and the extraction's text as content; the
\* interval resolver returns the empty list for its span.
C27_UnresolvedSpanKeepsSegment ==
    LET mapped == MappedExtractions(run.extractions)
        Unresolved(iv) ==
            /\ iv.kind = "obj"
            /\ \E pos \in {iv.start_pos, iv.end_pos} : pos.t \in {"none", "text"}
    IN
    Built =>
        /\ Len(run.segments) = Len(mapped)
        /\ \A k \in DOMAIN mapped :
                Unresolved(mapped[k].char_interval) =>
                    /\ _get_intervals_from_extraction_dict(mapped[k].char_interval) = <<>>
                    /\ run.segments[k].intervals = <<>>
                    /\ run.segments[k].content = mapped[k].extraction_text

\* two extractions, one whose span has no end and one whose span starts at
\* a value that is not a number, have been built into two segments without
\* intervals
C27_Witness ==
    /\ Built
    /\ Len(run.extractions) = 2
    /\ run.extractions[1].char_interval = CharInterval(IntPos(3), NonePos)
    /\ run.extractions[2].char_interval = CharInterval(TextPos, IntPos(7))
    /\ Len(run.segments) = 2
    /\ \A k \in 1..2 : run.segments[k].intervals = <<>> /\ run.segments[k].content = "c"

\* C28 as stated: in the rendered text, every FINDINGS: or IMPRESSION:
\* banner that follows rendered material is separated from it by exactly
\* one empty line, and the text ends without trailing whitespace.
C28_ZonesOneBlankLineApart ==
    LET lines == split_lines(run.text, "") IN
    run.stage = "rendered" =>
        /\ \A i \in DOMAIN lines :
                (i > 1 /\ lines[i] \in {FINDINGS_HEADER, IMPRESSION_HEADER}) =>
                    /\ lines[i - 1] = ""
                    /\ i > 2 /\ lines[i - 2] # ""
        /\ str_rstrip(run.text) = run.text

\* C29 as stated: after cache_result(text1, payload, id) with a supplied id
\* (any id that is not None), get_cached_result(text2, id) returns the
\* payload for every text2; and a request with a supplied id under whose
\* key a payload is stored is answered from the cache.
C29_SampleKeyIgnoresText ==
    [][/\ Handled("cache_result") =>
            \A text1 \in Texts, id \in Ids \ {None}, result \in Results, outcome \in SaveOutcomes :
                CacheResultOp(Server, text1, result, id, outcome) =>
                    \A text2 \in Texts :
                        get_cached_result(cache_data'[Server], text2, id) = result
       /\ Handled("predict") =>
            \A data \in RawInputs, id \in Ids \ {None} :
            (/\ PredictOp(Server, data, id, TRUE)
             /\ strip(data) # <<>> /\ Len(data) <= MAX_INPUT_LENGTH
             /\ _get_cache_key(preprocess_report(data), id) \in DOMAIN cache_data[Server])
                => ev'.status = "200 from_cache"]_vars

\* C29 as amended: the same for a non-empty id and, for the request, a
\* stored payload that is not empty; the engine is not invoked: the request
\* stores nothing and leaves the file alone.  (Each implication is written
\* with its conclusion first, so that the handler is evaluated only for the
\* steps that do not satisfy the conclusion.)
C29_SampleIdKeyIgnoresText ==
    [][/\ Handled("cache_result") =>
            \A id \in Ids, result \in Results, text1 \in Texts :
                \/ ~StrTruthy(id)
                \/ get_cached_result(cache_data'[Server], text1, id) # result
                \/ \A text2 \in Texts :
                        get_cached_result(cache_data'[Server], text2, id) = result
                \/ \A outcome \in SaveOutcomes :
                        ~CacheResultOp(Server, text1, result, id, outcome)
       /\ Handled("predict") =>
            \A id \in Ids :
                \/ ~StrTruthy(id)
                \/ ~Truthy(MapGet(cache_data[Server], _get_cache_key(<<>>, id)))
                \/ /\ ev'.status = "200 from_cache"
                   /\ DOMAIN cache_data'[Server] = DOMAIN cache_data[Server]
                   /\ file' = file
                \/ \A data \in RawInputs :
                        \/ strip(data) = <<>>
                        \/ Len(data) > MAX_INPUT_LENGTH
                        \/ ~PredictOp(Server, data, id, TRUE)]_vars

\* a request has been answered from the cache while the only entry of the
\* map is stored under the key of a sample
C29_Witness ==
    /\ ev.op = "predict"
    /\ ev.status = "200 from_cache"
    /\ DOMAIN cache_data[Server] = {SamplePrefix \o <<"a">>}

\* C30: the rebuild loop reaches its last statement for every sample list and
\* every pattern of failures; no sample is attempted more than 5 times; a
\* sample whose 5 attempts all raised is reported, cache_result is never
\* called for it and, unless another sample of the list has the same key, the
\* map holds no entry under its key; and every sample the loop has passed,
\* so at the end every sample of the list, was either stored or reported.
C30_RebuildTerminates ==
    /\ [](\A k \in DOMAIN rebuild.attempts :
            LET key(j) == _get_cache_key(sample_reports[j].text, sample_reports[j].id) IN
            /\ rebuild.attempts[k] <= 5
            /\ k \in rebuild.skipped =>
                    /\ rebuild.attempts[k] = 5
                    /\ k \notin rebuild.stored
                    /\ (\A j \in rebuild.stored : key(j) # key(k)) =>
                            key(k) \notin DOMAIN cache_data[Server]
            /\ k \in rebuild.stored => key(k) \in DOMAIN cache_data[Server]
            /\ (rebuild.stage = "done" \/ k < rebuild.i) =>
                    k \in rebuild.stored \cup rebuild.skipped)
    /\ <>(rebuild.stage = "done")

\* the first sample, whose text is not empty, failed five times and was
\* reported; the second one was stored at its first attempt
C30_Witness ==
    /\ rebuild.stage = "done"
    /\ Len(sample_reports) = 2
    /\ strip(sample_reports[1].text) # <<>>
    /\ rebuild.attempts = <<5, 1>>
    /\ rebuild.skipped = {1}
    /\ rebuild.stored = {2}
    /\ DOMAIN cache_data[Server] = {SamplePrefix \o <<"b">>}

====
